---- MODULE Spec2Model ----
(***************************************************************************)
(* BookSwap: the exchange-request lifecycle over the shared SQLite store.  *)
(*                                                                         *)
(* The store is one database file (book_listings, exchange_requests) used  *)
(* by one or several server instances.  A server instance runs a handler   *)
(* to completion before it takes the next one (synchronous better-sqlite3  *)
(* calls, no await in the listing and exchange handlers), so a handler is  *)
(* a sequence of statements of one instance; statements of different       *)
(* instances interleave.  A db.transaction() block is a deferred SQLite    *)
(* transaction: its first read takes a SHARED lock, its first write the    *)
(* RESERVED lock, and the commit needs every other SHARED lock released.   *)
(* Writes of a transaction live in the instance's working copy until the   *)
(* commit.  The schema declares both listing columns of exchange_requests  *)
(* as FOREIGN KEY ... ON DELETE CASCADE, which better-sqlite3 enforces.    *)
(*                                                                         *)
(* Registration is the one handler that awaits: UserService.registerUser   *)
(* writes the profile row (users, in database.db), awaits the password     *)
(* hashing of AuthService.register, and then writes the credentials        *)
(* (user_auth, in auth.db).  Other registrations of the same instance run  *)
(* between the two writes.                                                 *)
(***************************************************************************)
EXTENDS Integers, FiniteSets, Sequences, TLC

\* ------------------------------------------------------------------ bounds
MaxListings == 3
MaxRequests == 2
MaxUsers == 3
MaxCalls == 2

ListingIds == 1..MaxListings
RequestIds == 1..MaxRequests
Users == {"A", "B"}
\* the authenticated users that send requests: the owners and a user without listings
Callers == Users \cup {"C"}
Dates == {1}
Statuses == {"pending", "accepted", "rejected", "completed", "cancelled"}
\* registration requests: the registrations one instance has in progress, the
\* names and addresses they ask for, and a body with or without a password
Calls == 1..MaxCalls
Usernames == {"ann", "bob"}
Emails == {"ann@x", "bob@x"}
NoPassword == "undefined"
Passwords == {"secret", NoPassword}
NoProc == 0
KeepListing == 0
KeepStatus == "keep"

VARIABLES
    listings,     \* table book_listings: listing_id -> [user_id]
    requests,     \* table exchange_requests (committed rows): request_id -> row
    nextListing,  \* AUTOINCREMENT sequence of book_listings
    nextRequest,  \* AUTOINCREMENT sequence of exchange_requests
    procs,        \* the server instances sharing the database file
    pc,           \* per instance: position inside the handler it is running
    args,         \* per instance: the locals of the running handler
    work,         \* per instance: exchange_requests as seen inside its open transaction
    shared,       \* instances holding a SHARED lock
    reserved,     \* the instance holding the RESERVED lock, or NoProc
    response,     \* per instance: outcome of the handler it finished last
    users,        \* table users of database.db: user_id -> [username, email]
    user_auth,    \* table user_auth of auth.db: the usernames with credentials
    nextUser,     \* AUTOINCREMENT sequence of users
    calls,        \* per registration: its position and the locals of registerUser
    reply         \* per registration: what POST /user/register answered last

vars == <<listings, requests, nextListing, nextRequest, procs, pc, args, work,
          shared, reserved, response, users, user_auth, nextUser, calls, reply>>

\* the state of the listing and exchange handlers, and the state of registration
exchange == <<listings, requests, nextListing, nextRequest, procs, pc, args, work,
              shared, reserved, response>>
accounts == <<users, user_auth, nextUser, calls, reply>>

store == <<listings, requests, nextListing, nextRequest>>
locks == <<shared, reserved>>

NoArgs == [op |-> "none"]
NoWork == << >>

\* ------------------------------------------------------- rows and statements
\* interface ExchangeRequest
Row(id, a, b, s, d) ==
    [request_id |-> id, requestee_listing_id |-> a, requester_listing_id |-> b,
     status |-> s, request_date |-> d]

\* what a handler answers: an HTTP status with a row, or with an error message
NoResponse == [code |-> 0]
Answer(code, row) == [code |-> code, body |-> row]
Error(code, msg) == [code |-> code, error |-> msg]
NoContent == [code |-> 204]

\* variant: the count is compared with 1 instead of 0
exchangeRequestExistsOffByOne(reqs, a, b) ==
    Cardinality({r \in DOMAIN reqs :
        reqs[r].requestee_listing_id = a /\ reqs[r].requester_listing_id = b}) > 1

\* variant: the pair is looked up in both directions
exchangeRequestExistsEitherDirection(reqs, a, b) ==
    \E r \in DOMAIN reqs :
        \/ reqs[r].requestee_listing_id = a /\ reqs[r].requester_listing_id = b
        \/ reqs[r].requestee_listing_id = b /\ reqs[r].requester_listing_id = a

\* SELECT COUNT(*) ... WHERE requestee_listing_id = ? AND requester_listing_id = ?
exchangeRequestExists(reqs, a, b) ==
    \E r \in DOMAIN reqs :
        reqs[r].requestee_listing_id = a /\ reqs[r].requester_listing_id = b

\* variant: setting accepted also rejects the other requests for the same listing
SetStatusCascade(reqs, rid, s) ==
    [r \in DOMAIN reqs |->
        IF r = rid THEN [reqs[r] EXCEPT !.status = s]
        ELSE IF /\ s = "accepted" /\ rid \in DOMAIN reqs
                /\ reqs[r].requestee_listing_id = reqs[rid].requestee_listing_id
        THEN [reqs[r] EXCEPT !.status = "rejected"]
        ELSE reqs[r]]

\* UPDATE exchange_requests SET status = ? WHERE request_id = ?
SetStatus(reqs, rid, s) ==
    [r \in DOMAIN reqs |-> IF r = rid THEN [reqs[r] EXCEPT !.status = s] ELSE reqs[r]]

\* variant: the cascade rejects only the requests that are still pending
RejectOthersPendingOnly(reqs, x, rid) ==
    [r \in DOMAIN reqs |->
        IF reqs[r].requestee_listing_id = x /\ r # rid /\ reqs[r].status = "pending"
        THEN [reqs[r] EXCEPT !.status = "rejected"]
        ELSE reqs[r]]

\* variant: the cascade matches the listing in either role
RejectOthersEitherRole(reqs, x, rid) ==
    [r \in DOMAIN reqs |->
        IF (reqs[r].requestee_listing_id = x \/ reqs[r].requester_listing_id = x) /\ r # rid
        THEN [reqs[r] EXCEPT !.status = "rejected"]
        ELSE reqs[r]]

\* variant: the cascade writes the status cancelled
RejectOthersCancelled(reqs, x, rid) ==
    [r \in DOMAIN reqs |->
        IF reqs[r].requestee_listing_id = x /\ r # rid
        THEN [reqs[r] EXCEPT !.status = "cancelled"]
        ELSE reqs[r]]

\* UPDATE exchange_requests SET status = 'rejected'
\*   WHERE requestee_listing_id = ? AND request_id != ?
RejectOthers(reqs, x, rid) ==
    [r \in DOMAIN reqs |->
        IF reqs[r].requestee_listing_id = x /\ r # rid
        THEN [reqs[r] EXCEPT !.status = "rejected"]
        ELSE reqs[r]]

\* INSERT INTO exchange_requests (...) VALUES (?, ?, ?, ?)
InsertRequest(reqs, rid, a, b, s, d) ==
    [r \in DOMAIN reqs \cup {rid} |-> IF r = rid THEN Row(rid, a, b, s, d) ELSE reqs[r]]

\* variant: the owners are not compared
CreateCheckNoOwner(ls, a, b) ==
    IF a \notin DOMAIN ls \/ b \notin DOMAIN ls
    THEN "One or both listings not found"
    ELSE "ok"

\* variant: the existence check fails only when both listings are missing
CreateCheckBothMissing(ls, a, b) ==
    IF a \notin DOMAIN ls /\ b \notin DOMAIN ls
    THEN "One or both listings not found"
    ELSE IF a \in DOMAIN ls /\ b \in DOMAIN ls /\ ls[a].user_id = ls[b].user_id
    THEN "Cannot create exchange request between listings owned by the same user"
    ELSE "ok"

\* variant: both checks throw the same message
CreateCheckOneMessage(ls, a, b) ==
    IF a \notin DOMAIN ls \/ b \notin DOMAIN ls
    THEN "Invalid exchange request"
    ELSE IF ls[a].user_id = ls[b].user_id
    THEN "Invalid exchange request"
    ELSE "ok"

\* the checks of ExchangeRequestsDAO.createExchangeRequest before its INSERT
CreateCheck(ls, a, b) ==
    IF a \notin DOMAIN ls \/ b \notin DOMAIN ls
    THEN "One or both listings not found"
    ELSE IF ls[a].user_id = ls[b].user_id
    THEN "Cannot create exchange request between listings owned by the same user"
    ELSE "ok"

\* the catch of ExchangeRequestsDAO.createExchangeRequest: every error of the
\* transaction is thrown again as a CreateExchangeRequestError with this message
CreateFailed(msg) == "Failed to create exchange request: " \o msg

\* DELETE FROM exchange_requests WHERE request_id = ?
RemoveRequest(reqs, rid) ==
    [r \in DOMAIN reqs \ {rid} |-> reqs[r]]

\* variant: only the requestee column cascades
CascadeDeleteRequesteeOnly(reqs, gone) ==
    [r \in {q \in DOMAIN reqs : reqs[q].requestee_listing_id \notin gone} |-> reqs[r]]

\* variant: the foreign keys are not enforced
CascadeDeleteNone(reqs, gone) == reqs

\* FOREIGN KEY (requestee_listing_id / requester_listing_id)
\*   REFERENCES book_listings(listing_id) ON DELETE CASCADE
CascadeDelete(reqs, gone) ==
    [r \in {q \in DOMAIN reqs :
                /\ reqs[q].requestee_listing_id \notin gone
                /\ reqs[q].requester_listing_id \notin gone} |-> reqs[r]]

\* DELETE FROM book_listings WHERE listing_id = ?
RemoveListing(ls, l) ==
    [k \in DOMAIN ls \ {l} |-> ls[k]]

\* ------------------------------------------------------------------- locks
\* a statement outside a transaction that writes: needs RESERVED, then EXCLUSIVE
CanWrite(p) == reserved \in {NoProc, p} /\ shared \subseteq {p}
\* the first write of a transaction: needs RESERVED
CanReserve(p) == reserved \in {NoProc, p}
\* COMMIT: needs EXCLUSIVE, which waits for every other reader
CanCommit(p) == shared \subseteq {p}

Idle(p) == pc[p] = "idle"

\* the instances inside a create handler (each may still insert one row)
Creating == {q \in procs : pc[q] \in {"create_txn", "create_insert", "create_commit"}}

Finish(p, r) ==
    /\ pc' = [pc EXCEPT ![p] = "idle"]
    /\ args' = [args EXCEPT ![p] = NoArgs]
    /\ work' = [work EXCEPT ![p] = NoWork]
    /\ response' = [response EXCEPT ![p] = r]

Goto(p, label, a) ==
    /\ pc' = [pc EXCEPT ![p] = label]
    /\ args' = [args EXCEPT ![p] = a]
    /\ response' = [response EXCEPT ![p] = NoResponse]

Release(p) ==
    /\ shared' = shared \ {p}
    /\ reserved' = IF reserved = p THEN NoProc ELSE reserved

TypeOK ==
    /\ DOMAIN listings \subseteq ListingIds
    /\ \A l \in DOMAIN listings : listings[l].user_id \in Users
    /\ DOMAIN requests \subseteq RequestIds
    /\ \A r \in DOMAIN requests :
          /\ requests[r].requestee_listing_id \in ListingIds
          /\ requests[r].requester_listing_id \in ListingIds
          /\ requests[r].request_id = r
          /\ requests[r].status \in Statuses
          /\ requests[r].request_date \in Dates
    /\ nextListing \in 1..(MaxListings + 1)
    /\ nextRequest \in 1..(MaxRequests + 1)
    /\ shared \subseteq procs
    /\ reserved \in procs \cup {NoProc}

\* no user registered and no registration in progress
NoAccounts ==
    /\ users = << >>
    /\ user_auth = {}
    /\ nextUser = 1
    /\ calls = [c \in Calls |-> [pc |-> "idle"]]
    /\ reply = [c \in Calls |-> NoResponse]

Init ==
    /\ listings = << >>
    /\ requests = << >>
    /\ nextListing = 1
    /\ nextRequest = 1
    /\ procs = {1}
    /\ pc = [p \in procs |-> "idle"]
    /\ args = [p \in procs |-> NoArgs]
    /\ work = [p \in procs |-> NoWork]
    /\ shared = {}
    /\ reserved = NoProc
    /\ response = [p \in procs |-> NoResponse]
    /\ NoAccounts

\* ------------------------------------------------------------ Listing Store
\* POST /listings -> BookListingsDAO.createBookListing; owner is the caller
CreateBookListing(p, u) ==
    /\ Idle(p) /\ CanWrite(p)
    /\ nextListing <= MaxListings
    /\ listings' = [k \in DOMAIN listings \cup {nextListing} |->
                       IF k = nextListing THEN [user_id |-> u] ELSE listings[k]]
    /\ nextListing' = nextListing + 1
    /\ Finish(p, Answer(201, [listing_id |-> nextListing, user_id |-> u]))
    /\ UNCHANGED <<requests, nextRequest, procs, accounts, locks>>

\* PUT /listings/:id -> BookListingsDAO.updateBookListing with body {user_id: u}
UpdateBookListing(p, l, u) ==
    /\ Idle(p) /\ CanWrite(p)
    /\ IF l \in DOMAIN listings
       THEN /\ listings' = [listings EXCEPT ![l] = [@ EXCEPT !.user_id = u]]
            /\ Finish(p, Answer(200, [listing_id |-> l, user_id |-> u]))
       ELSE /\ UNCHANGED listings
            /\ Finish(p, Error(404, "UpdateBookListingError"))
    /\ UNCHANGED <<requests, nextListing, nextRequest, procs, accounts, locks>>

\* DELETE /listings/:id -> BookListingsDAO.deleteBookListing
DeleteBookListing(p, l) ==
    /\ Idle(p) /\ CanWrite(p)
    /\ listings' = RemoveListing(listings, l)
    /\ requests' = CascadeDelete(requests, {l})
    /\ Finish(p, IF l \in DOMAIN listings THEN NoContent
                                          ELSE Error(404, "Book listing not found"))
    /\ UNCHANGED <<nextListing, nextRequest, procs, accounts, locks>>

\* ------------------------------------------------- Exchange Request Store
\* PUT /exchanges/:id/status sent by user u
\*   -> ExchangeRequestsDAO.updateExchangeRequestStatus; the handler does not read req.user
UpdateExchangeRequestStatus(p, u, rid, s) ==
    /\ Idle(p) /\ CanWrite(p)
    /\ IF rid \in DOMAIN requests
       THEN /\ requests' = SetStatus(requests, rid, s)
            /\ Finish(p, Answer(200, SetStatus(requests, rid, s)[rid]))
       ELSE /\ UNCHANGED requests
            /\ Finish(p, Error(500, "UpdateExchangeRequestError"))
    /\ UNCHANGED <<listings, nextListing, nextRequest, procs, accounts, locks>>

\* variant: deleting an id that is not stored throws
DeleteExchangeRequestThrows(p, u, rid) ==
    /\ Idle(p) /\ CanWrite(p)
    /\ requests' = RemoveRequest(requests, rid)
    /\ Finish(p, IF rid \in DOMAIN requests THEN NoContent
                                            ELSE Error(500, "Internal server error"))
    /\ UNCHANGED <<listings, nextListing, nextRequest, procs, accounts, locks>>

\* DELETE /exchanges/:id sent by user u
\*   -> ExchangeRequestsDAO.deleteExchangeRequest; the handler does not read req.user
DeleteExchangeRequest(p, u, rid) ==
    /\ Idle(p) /\ CanWrite(p)
    /\ requests' = RemoveRequest(requests, rid)
    /\ Finish(p, IF rid \in DOMAIN requests THEN NoContent
                                            ELSE Error(404, "Exchange request not found"))
    /\ UNCHANGED <<listings, nextListing, nextRequest, procs, accounts, locks>>

NotAuthorizedToView == Error(403, "Not authorized to view this exchange request")

\* variant: only the owner of the requestee listing may view, as in the accept route
ViewExchangeRequesteeOnly(p, u, rid) ==
    /\ Idle(p)
    /\ IF rid \notin DOMAIN requests
       THEN Finish(p, Error(404, "ExchangeRequestNotFoundError"))
       ELSE LET a == requests[rid].requestee_listing_id
                b == requests[rid].requester_listing_id
            IN IF a \notin DOMAIN listings \/ b \notin DOMAIN listings
               THEN Finish(p, Error(500, "Internal server error"))
               ELSE IF listings[a].user_id # u
               THEN Finish(p, NotAuthorizedToView)
               ELSE Finish(p, Answer(200, requests[rid]))
    /\ UNCHANGED <<store, procs, accounts, locks>>

\* GET /exchanges/:id sent by user u: getExchangeRequestById, getBookListingById
\* for both listings, the ownership check, the 200 response
ViewExchange(p, u, rid) ==
    /\ Idle(p)
    /\ IF rid \notin DOMAIN requests
       THEN Finish(p, Error(404, "ExchangeRequestNotFoundError"))
       ELSE LET a == requests[rid].requestee_listing_id
                b == requests[rid].requester_listing_id
            IN IF a \notin DOMAIN listings \/ b \notin DOMAIN listings
               THEN Finish(p, Error(500, "Internal server error"))
               ELSE IF listings[a].user_id # u /\ listings[b].user_id # u
               THEN Finish(p, NotAuthorizedToView)
               ELSE Finish(p, Answer(200, requests[rid]))
    /\ UNCHANGED <<store, procs, accounts, locks>>

\* ---- POST /exchanges sent by user u -> ExchangeService.createExchangeRequest(a, b)
\* the duplicate check, a statement of its own before the DAO's transaction
CreateExists(p, u, a, b) ==
    /\ Idle(p)
    /\ nextRequest + Cardinality(Creating) <= MaxRequests
    /\ IF exchangeRequestExists(requests, a, b)
       THEN /\ Finish(p, Error(400, "An exchange request already exists between these listings"))
       ELSE /\ Goto(p, "create_txn",
                    [op |-> "create", caller |-> u, requestee |-> a, requester |-> b])
            /\ UNCHANGED work
    /\ UNCHANGED <<store, procs, accounts, locks>>

\* ExchangeRequestsDAO.createExchangeRequest: BEGIN, the two listing reads, the checks
CreateTxnBegin(p) ==
    /\ pc[p] = "create_txn"
    /\ LET a == args[p].requestee
           b == args[p].requester
           check == CreateCheck(listings, a, b)
       IN IF check # "ok"
          THEN /\ Finish(p, Error(400, CreateFailed(check)))
               /\ UNCHANGED locks
          ELSE /\ pc' = [pc EXCEPT ![p] = "create_insert"]
               /\ work' = [work EXCEPT ![p] = requests]
               /\ shared' = shared \cup {p}
               /\ UNCHANGED <<args, response, reserved>>
    /\ UNCHANGED <<store, procs, accounts>>

\* the INSERT, into the transaction's working copy
CreateTxnInsert(p, d) ==
    /\ pc[p] = "create_insert"
    /\ CanReserve(p)
    /\ reserved' = p
    /\ work' = [work EXCEPT ![p] =
                  InsertRequest(@, nextRequest,
                                args[p].requestee, args[p].requester, "pending", d)]
    /\ pc' = [pc EXCEPT ![p] = "create_commit"]
    /\ UNCHANGED <<store, procs, accounts, args, response, shared>>

\* variant: the id sequence does not advance, the next insert takes the same id
CreateTxnCommitSameId(p) ==
    /\ pc[p] = "create_commit"
    /\ CanCommit(p)
    /\ requests' = work[p]
    /\ Release(p)
    /\ Finish(p, Answer(201, work[p][nextRequest]))
    /\ UNCHANGED <<listings, nextListing, nextRequest, procs, accounts>>

\* the read-back of the inserted row and COMMIT
CreateTxnCommit(p) ==
    /\ pc[p] = "create_commit"
    /\ CanCommit(p)
    /\ requests' = work[p]
    /\ nextRequest' = nextRequest + 1
    /\ Release(p)
    /\ Finish(p, Answer(201, work[p][nextRequest]))
    /\ UNCHANGED <<listings, nextListing, procs, accounts>>

\* ---- PUT /exchanges/:id/accept, called by user u
\* exchangeService.getExchangeRequestById(requestId)
AcceptLoad(p, rid, u) ==
    /\ Idle(p)
    /\ IF rid \in DOMAIN requests
       THEN /\ Goto(p, "accept_auth",
                    [op |-> "accept", rid |-> rid, caller |-> u, row |-> requests[rid]])
            /\ UNCHANGED work
       ELSE Finish(p, Error(404, "ExchangeRequestNotFoundError"))
    /\ UNCHANGED <<store, procs, accounts, locks>>

AcceptForbidden ==
    Error(403, "Only the owner of the requested book can accept an exchange request")

\* variant: the owner of the requestee listing is not compared with the caller
AcceptAuthAnyCaller(p) ==
    /\ pc[p] = "accept_auth"
    /\ LET x == args[p].row.requestee_listing_id
       IN IF x \notin DOMAIN listings
          THEN Finish(p, Error(500, "BookListingNotFoundError"))
          ELSE /\ pc' = [pc EXCEPT ![p] = "accept_txn"]
               /\ UNCHANGED <<args, work, response>>
    /\ UNCHANGED <<store, procs, accounts, locks>>

\* booksService.getBookListingById(requestee) and the ownership check
AcceptAuth(p) ==
    /\ pc[p] = "accept_auth"
    /\ LET x == args[p].row.requestee_listing_id
       IN IF x \notin DOMAIN listings
          THEN Finish(p, Error(500, "BookListingNotFoundError"))
          ELSE IF listings[x].user_id # args[p].caller
          THEN Finish(p, AcceptForbidden)
          ELSE /\ pc' = [pc EXCEPT ![p] = "accept_txn"]
               /\ UNCHANGED <<args, work, response>>
    /\ UNCHANGED <<store, procs, accounts, locks>>

\* ExchangeRequestsDAO.acceptExchangeRequest: BEGIN and getExchangeRequestById
AcceptTxnBegin(p) ==
    /\ pc[p] = "accept_txn"
    /\ LET rid == args[p].rid
       IN IF rid \in DOMAIN requests
          THEN /\ pc' = [pc EXCEPT ![p] = "accept_set"]
               /\ args' = [args EXCEPT ![p] = [@ EXCEPT !.row = requests[rid]]]
               /\ work' = [work EXCEPT ![p] = requests]
               /\ shared' = shared \cup {p}
               /\ UNCHANGED <<response, reserved>>
          ELSE /\ Finish(p, Error(404, "ExchangeRequestNotFoundError"))
               /\ UNCHANGED locks
    /\ UNCHANGED <<store, procs, accounts>>

\* variant: the status update commits on its own, outside the enclosing transaction
AcceptTxnSetAcceptedAutocommit(p) ==
    /\ pc[p] = "accept_set"
    /\ CanReserve(p)
    /\ reserved' = p
    /\ requests' = SetStatus(requests, args[p].rid, "accepted")
    /\ work' = [work EXCEPT ![p] = SetStatus(@, args[p].rid, "accepted")]
    /\ pc' = [pc EXCEPT ![p] = "accept_cascade"]
    /\ UNCHANGED <<listings, nextListing, nextRequest, procs, accounts, args, response, shared>>

\* this.updateExchangeRequestStatus(requestId, 'accepted'), a nested transaction
AcceptTxnSetAccepted(p) ==
    /\ pc[p] = "accept_set"
    /\ CanReserve(p)
    /\ reserved' = p
    /\ work' = [work EXCEPT ![p] = SetStatus(@, args[p].rid, "accepted")]
    /\ pc' = [pc EXCEPT ![p] = "accept_cascade"]
    /\ UNCHANGED <<store, procs, accounts, args, response, shared>>

\* the UPDATE that rejects the other requests for the requestee listing
AcceptTxnCascade(p) ==
    /\ pc[p] = "accept_cascade"
    /\ work' = [work EXCEPT ![p] = RejectOthers(@, args[p].row.requestee_listing_id, args[p].rid)]
    /\ pc' = [pc EXCEPT ![p] = "accept_commit"]
    /\ UNCHANGED <<store, procs, accounts, args, response, locks>>

\* the final getExchangeRequestById and COMMIT
AcceptTxnCommit(p) ==
    /\ pc[p] = "accept_commit"
    /\ CanCommit(p)
    /\ requests' = work[p]
    /\ Release(p)
    /\ pc' = [pc EXCEPT ![p] = "accept_del1"]
    /\ args' = [args EXCEPT ![p] = [@ EXCEPT !.row = work[p][args[p].rid]]]
    /\ work' = [work EXCEPT ![p] = NoWork]
    /\ UNCHANGED <<listings, nextListing, nextRequest, procs, accounts, response>>

\* booksService.deleteBookListing(requesteeListingId)
AcceptDeleteRequestee(p) ==
    /\ pc[p] = "accept_del1"
    /\ CanWrite(p)
    /\ listings' = RemoveListing(listings, args[p].row.requestee_listing_id)
    /\ requests' = CascadeDelete(requests, {args[p].row.requestee_listing_id})
    /\ pc' = [pc EXCEPT ![p] = "accept_del2"]
    /\ UNCHANGED <<nextListing, nextRequest, procs, accounts, args, work, response, locks>>

\* variant: the second call deletes the requestee listing again
AcceptDeleteRequesterWrongListing(p) ==
    /\ pc[p] = "accept_del2"
    /\ CanWrite(p)
    /\ listings' = RemoveListing(listings, args[p].row.requestee_listing_id)
    /\ requests' = CascadeDelete(requests, {args[p].row.requestee_listing_id})
    /\ Finish(p, Answer(200, args[p].row))
    /\ UNCHANGED <<nextListing, nextRequest, procs, accounts, locks>>

\* booksService.deleteBookListing(requesterListingId), then the 200 response
AcceptDeleteRequester(p) ==
    /\ pc[p] = "accept_del2"
    /\ CanWrite(p)
    /\ listings' = RemoveListing(listings, args[p].row.requester_listing_id)
    /\ requests' = CascadeDelete(requests, {args[p].row.requester_listing_id})
    /\ Finish(p, Answer(200, args[p].row))
    /\ UNCHANGED <<nextListing, nextRequest, procs, accounts, locks>>

\* ExchangeRequestsDAO.updateExchangeRequest(requestId, updates), which no route and
\* no service method calls: updates gives new values for some of the columns
\* (KeepListing and KeepStatus stand for a key that updates does not have)
UpdateExchangeRequest(p, rid, ee, er, st) ==
    /\ Idle(p) /\ CanWrite(p)
    /\ IF rid \notin DOMAIN requests
       THEN /\ UNCHANGED requests
            /\ Finish(p, Error(500, "UpdateExchangeRequestError"))
       ELSE IF (ee # KeepListing /\ ee \notin DOMAIN listings)
               \/ (er # KeepListing /\ er \notin DOMAIN listings)
       THEN /\ UNCHANGED requests
            /\ Finish(p, Error(500, "FOREIGN KEY constraint failed"))
       ELSE LET row == [requests[rid] EXCEPT
                          !.requestee_listing_id = IF ee = KeepListing THEN @ ELSE ee,
                          !.requester_listing_id = IF er = KeepListing THEN @ ELSE er,
                          !.status = IF st = KeepStatus THEN @ ELSE st]
            IN /\ requests' = [requests EXCEPT ![rid] = row]
               /\ Finish(p, Answer(200, row))
    /\ UNCHANGED <<listings, nextListing, nextRequest, procs, accounts, locks>>

\* variant: a failed accept transaction is caught on its own and the handler
\* goes on to delete the listings
BusyContinues(p) ==
    /\ \/ pc[p] \in {"create_insert", "accept_set"} /\ ~CanReserve(p)
       \/ pc[p] \in {"create_commit", "accept_commit"} /\ ~CanCommit(p)
       \/ pc[p] \in {"accept_del1", "accept_del2"} /\ ~CanWrite(p)
    /\ Release(p)
    /\ IF pc[p] \in {"accept_set", "accept_commit"}
       THEN /\ pc' = [pc EXCEPT ![p] = "accept_del1"]
            /\ work' = [work EXCEPT ![p] = NoWork]
            /\ UNCHANGED <<args, response>>
       ELSE Finish(p, IF pc[p] \in {"create_insert", "create_commit"}
                      THEN Error(400, CreateFailed("database is locked"))
                      ELSE Error(500, "Internal server error"))
    /\ UNCHANGED <<store, procs, accounts>>

\* SQLITE_BUSY: the lock the next statement needs is held by another instance.
\* Inside a transaction the wrapper rolls back and rethrows; the handler answers
\* with an error and the statements after the failing one do not run.
Busy(p) ==
    /\ \/ pc[p] \in {"create_insert", "accept_set"} /\ ~CanReserve(p)
       \/ pc[p] \in {"create_commit", "accept_commit"} /\ ~CanCommit(p)
       \/ pc[p] \in {"accept_del1", "accept_del2"} /\ ~CanWrite(p)
    /\ Release(p)
    /\ Finish(p, IF pc[p] \in {"create_insert", "create_commit"}
                 THEN Error(400, CreateFailed("database is locked"))
                 ELSE Error(500, "Internal server error"))
    /\ UNCHANGED <<store, procs, accounts>>

\* ------------------------------------------------------------ specification
ListingStep(p) ==
    \/ \E u \in Users : CreateBookListing(p, u)
    \/ \E l \in ListingIds, u \in Users : UpdateBookListing(p, l, u)
    \/ \E l \in ListingIds : DeleteBookListing(p, l)

RequestStep(p) ==
    \/ \E u \in Callers, rid \in RequestIds, s \in Statuses :
          UpdateExchangeRequestStatus(p, u, rid, s)
    \/ \E u \in Callers, rid \in RequestIds : DeleteExchangeRequest(p, u, rid)

ViewStep(p) ==
    \E u \in Callers, rid \in RequestIds : ViewExchange(p, u, rid)

CreateStep(p) ==
    \/ \E u \in Callers, a \in ListingIds, b \in ListingIds : CreateExists(p, u, a, b)
    \/ CreateTxnBegin(p)
    \/ \E d \in Dates : CreateTxnInsert(p, d)
    \/ CreateTxnCommit(p)

AcceptStep(p) ==
    \/ \E rid \in RequestIds, u \in Callers : AcceptLoad(p, rid, u)
    \/ AcceptAuth(p)
    \/ AcceptTxnBegin(p)
    \/ AcceptTxnSetAccepted(p)
    \/ AcceptTxnCascade(p)
    \/ AcceptTxnCommit(p)
    \/ AcceptDeleteRequestee(p)
    \/ AcceptDeleteRequester(p)

Next ==
    \E p \in procs :
        ListingStep(p) \/ RequestStep(p) \/ ViewStep(p) \/ CreateStep(p) \/ AcceptStep(p)

Spec == Init /\ [][Next]_vars

\* The store used through the DAO classes directly: one caller that creates
\* listings and requests and calls ExchangeRequestsDAO.updateExchangeRequest.
NextDao ==
    \E p \in procs :
        \/ \E u \in Users : CreateBookListing(p, u)
        \/ CreateStep(p)
        \/ \E rid \in RequestIds, ee \in ListingIds \cup {KeepListing},
              er \in ListingIds \cup {KeepListing}, st \in Statuses \cup {KeepStatus} : UpdateExchangeRequest(p, rid, ee, er, st)

SpecDao == Init /\ [][NextDao]_vars

\* Two server instances on the same database file, started on a store that holds
\* listing 1 of user A and listings 2 and 3 of user B and no exchange request.
InitConc ==
    /\ listings = (1 :> [user_id |-> "A"]) @@ (2 :> [user_id |-> "B"]) @@ (3 :> [user_id |-> "B"])
    /\ requests = << >>
    /\ nextListing = 4
    /\ nextRequest = 1
    /\ procs = {1, 2}
    /\ pc = [p \in procs |-> "idle"]
    /\ args = [p \in procs |-> NoArgs]
    /\ work = [p \in procs |-> NoWork]
    /\ shared = {}
    /\ reserved = NoProc
    /\ response = [p \in procs |-> NoResponse]
    /\ NoAccounts

NextConc ==
    \E p \in procs : CreateStep(p) \/ AcceptStep(p) \/ Busy(p)

SpecConc == InitConc /\ [][NextConc]_vars

\* One server instance on the same populated store: the exchange routes and
\* DELETE /listings/:id, with no listing created and no listing's owner changed.
InitStore ==
    /\ listings = (1 :> [user_id |-> "A"]) @@ (2 :> [user_id |-> "B"]) @@ (3 :> [user_id |-> "B"])
    /\ requests = << >>
    /\ nextListing = 4
    /\ nextRequest = 1
    /\ procs = {1}
    /\ pc = [p \in procs |-> "idle"]
    /\ args = [p \in procs |-> NoArgs]
    /\ work = [p \in procs |-> NoWork]
    /\ shared = {}
    /\ reserved = NoProc
    /\ response = [p \in procs |-> NoResponse]
    /\ NoAccounts

NextStore ==
    \E p \in procs :
        \/ RequestStep(p)
        \/ ViewStep(p)
        \/ CreateStep(p)
        \/ AcceptStep(p)
        \/ \E l \in ListingIds : DeleteBookListing(p, l)

SpecStore == InitStore /\ [][NextStore]_vars

\* ------------------------------------------------------------- registration
\* variant: the rollback deletes nothing
deleteUserNothing(us, id) == us

\* UserDAO.deleteUser: DELETE FROM users WHERE user_id = ?
deleteUser(us, id) ==
    [k \in DOMAIN us \ {id} |-> us[k]]

\* users.username and users.email are UNIQUE
UniqueViolation(us, name, email) ==
    \E k \in DOMAIN us : us[k].username = name \/ us[k].email = email

\* a registration ends: POST /user/register sends its answer
Return(c, r) ==
    /\ calls' = [calls EXCEPT ![c] = [pc |-> "idle"]]
    /\ reply' = [reply EXCEPT ![c] = r]

\* POST /user/register -> UserService.registerUser up to its await:
\* userDao.createUser(userProfileData), then the call of authService.register
RegisterUser(c, name, email, pw) ==
    /\ calls[c].pc = "idle"
    /\ nextUser <= MaxUsers
    /\ IF UniqueViolation(users, name, email)
       THEN /\ Return(c, Error(400, "Failed to register user: Failed to create user: UNIQUE constraint failed"))
            /\ UNCHANGED <<users, nextUser>>
       ELSE /\ users' = (nextUser :> [username |-> name, email |-> email]) @@ users
            /\ nextUser' = nextUser + 1
            /\ calls' = [calls EXCEPT ![c] = [pc |-> "hashing", username |-> name, password |-> pw,
                                              createdUser |-> [user_id |-> nextUser, username |-> name,
                                                               email |-> email]]]
            /\ reply' = [reply EXCEPT ![c] = NoResponse]
    /\ UNCHANGED <<user_auth, exchange>>

\* AuthService.register after its awaits on bcrypt, and the rest of registerUser:
\* the hashing rejects a body without password; the transaction on user_auth
\* throws UserExistsError or inserts; every error is answered by deleteUser of
\* the created profile and 400
Register(c) ==
    /\ calls[c].pc = "hashing"
    /\ LET name == calls[c].username
           created == calls[c].createdUser
       IN IF calls[c].password = NoPassword
          THEN /\ users' = deleteUser(users, created.user_id)
               /\ Return(c, Error(400, "Failed to register user: Illegal arguments: undefined, string"))
               /\ UNCHANGED user_auth
          ELSE IF name \in user_auth
          THEN /\ users' = deleteUser(users, created.user_id)
               /\ Return(c, Error(400, "Registration failed: User with username already exists"))
               /\ UNCHANGED user_auth
          ELSE /\ user_auth' = user_auth \cup {name}
               /\ Return(c, Answer(201, [user |-> created, token |-> name]))
               /\ UNCHANGED users
    /\ UNCHANGED <<nextUser, exchange>>

\* One server instance whose registrations interleave at the await.
NextReg ==
    \E c \in Calls :
        \/ \E name \in Usernames, email \in Emails, pw \in Passwords :
              RegisterUser(c, name, email, pw)
        \/ Register(c)

SpecReg == Init /\ [][NextReg]_vars

\* ------------------------------------------------------------------ claims
\* the step in which instance p commits the transaction of acceptExchangeRequest
AcceptCommits(p) == pc[p] = "accept_commit" /\ pc'[p] = "accept_del1"

\* the requests other than rid that ask for listing x
Siblings(reqs, x, rid) ==
    {r \in DOMAIN reqs \ {rid} : reqs[r].requestee_listing_id = x}

\* C1: when accept(R) succeeds, R is accepted and every other stored request for
\* R's requestee listing is rejected, whatever its status was before.
C1_AcceptCascade ==
    [][\A p \in procs : AcceptCommits(p) =>
          LET rid == args[p].rid
          IN /\ rid \in DOMAIN requests'
             /\ requests'[rid].status = "accepted"
             /\ \A r \in Siblings(requests', requests'[rid].requestee_listing_id, rid) :
                   requests'[r].status = "rejected"]_vars

\* an accept has committed and a sibling of the accepted request stands rejected
C1_Witness ==
    \E p \in procs :
        /\ pc[p] = "accept_del1"
        /\ args[p].rid \in DOMAIN requests
        /\ requests[args[p].rid].status = "accepted"
        /\ \E r \in Siblings(requests, args[p].row.requestee_listing_id, args[p].rid) :
              requests[r].status = "rejected"

\* C2: accept(R) leaves every request for another requestee listing unchanged,
\* also when it names R's listings as requester listing, adds and removes no
\* request, and changes no field but status on the requests it touches.
C2_AcceptFrame ==
    [][\A p \in procs : AcceptCommits(p) =>
          LET x == requests[args[p].rid].requestee_listing_id
          IN /\ DOMAIN requests' = DOMAIN requests
             /\ \A r \in DOMAIN requests :
                   /\ requests[r].requestee_listing_id # x => requests'[r] = requests[r]
                   /\ [requests'[r] EXCEPT !.status = requests[r].status] = requests[r]]_vars

\* an accept has committed while a request that offers the accepted request's
\* requestee listing as its requester listing is still pending
C2_Witness ==
    \E p \in procs :
        /\ pc[p] = "accept_del1"
        /\ \E r \in DOMAIN requests :
              /\ r # args[p].rid
              /\ requests[r].requester_listing_id = args[p].row.requestee_listing_id
              /\ requests[r].requestee_listing_id = args[p].row.requester_listing_id
              /\ requests[r].status = "pending"

AcceptTxnPcs == {"accept_txn", "accept_set", "accept_cascade", "accept_commit"}
CreatePcs == {"create_txn", "create_insert", "create_commit"}

\* C3: accept is all-or-nothing.  A step of the accept transaction either leaves
\* the committed requests as they are, or leaves the target accepted with every
\* sibling rejected; a step that ends the handler with an error changes nothing.
C3_AcceptAllOrNothing ==
    [][\A p \in procs : (pc[p] \in AcceptTxnPcs /\ pc'[p] # pc[p]) =>
          LET rid == args[p].rid
          IN /\ \/ requests' = requests
                \/ /\ rid \in DOMAIN requests'
                   /\ requests'[rid].status = "accepted"
                   /\ \A r \in Siblings(requests', requests'[rid].requestee_listing_id, rid) :
                         requests'[r].status = "rejected"
             /\ pc'[p] = "idle" => requests' = requests]_vars

\* an accept transaction has marked its target accepted in its working copy, a
\* sibling is not rejected yet, and the committed rows still show both pending
C3_Witness ==
    \E p \in procs :
        /\ pc[p] = "accept_cascade"
        /\ work[p][args[p].rid].status = "accepted"
        /\ requests[args[p].rid].status = "pending"
        /\ \E r \in Siblings(requests, args[p].row.requestee_listing_id, args[p].rid) :
              requests[r].status = "pending" /\ work[p][r].status = "pending"

\* C4: two instances have each answered 200 to an accept, for two different
\* requests (different requester listings) on the same requestee listing; then
\* exactly one of the two requests is stored as accepted and the other as rejected.
C4_ExactlyOneAccepted ==
    \A p \in procs, q \in procs :
        (/\ p # q
         /\ Idle(p) /\ Idle(q)
         /\ response[p].code = 200 /\ response[q].code = 200
         /\ response[p].body.request_id # response[q].body.request_id
         /\ response[p].body.requester_listing_id # response[q].body.requester_listing_id
         /\ response[p].body.requestee_listing_id = response[q].body.requestee_listing_id)
        => LET r1 == response[p].body.request_id
               r2 == response[q].body.request_id
           IN /\ r1 \in DOMAIN requests /\ r2 \in DOMAIN requests
              /\ \/ requests[r1].status = "accepted" /\ requests[r2].status = "rejected"
                 \/ requests[r1].status = "rejected" /\ requests[r2].status = "accepted"

\* C5: at most one stored request for an ordered pair of listings.
C5_UniqueOrderedPair ==
    \A r1 \in DOMAIN requests, r2 \in DOMAIN requests :
        (/\ requests[r1].requestee_listing_id = requests[r2].requestee_listing_id
         /\ requests[r1].requester_listing_id = requests[r2].requester_listing_id)
        => r1 = r2

\* a request for the ordered pair (a, b) is among the rows reqs
PairStored(reqs, a, b) ==
    \E r \in DOMAIN reqs :
        reqs[r].requestee_listing_id = a /\ reqs[r].requester_listing_id = b

\* both listings exist and belong to different users
ValidPair(a, b) ==
    /\ a \in DOMAIN listings /\ b \in DOMAIN listings
    /\ listings[a].user_id # listings[b].user_id

DuplicateError == Error(400, "An exchange request already exists between these listings")

\* C6: with one server instance, create(L1,L2) for listings of different owners
\* succeeds when no request for (L1,L2) is stored, and a create(L1,L2) while one
\* is stored answers the duplicate error and leaves the stored requests as they are.
C6_DuplicateRejected ==
    [][\A p \in procs :
          /\ (Idle(p) /\ (pc'[p] = "create_txn" \/ response'[p].code = 400))
             => \A a \in ListingIds, b \in ListingIds :
                   (\E u \in Callers : CreateExists(p, u, a, b)) =>
                       IF PairStored(requests, a, b)
                       THEN /\ pc'[p] = "idle"
                            /\ response'[p] = DuplicateError
                            /\ requests' = requests
                       ELSE pc'[p] = "create_txn"
          /\ (/\ pc[p] \in CreatePcs /\ pc'[p] = "idle"
              /\ ValidPair(args[p].requestee, args[p].requester))
             => /\ response'[p].code = 201
                /\ response'[p].body.status = "pending"
                /\ ~PairStored(requests, args[p].requestee, args[p].requester)
                /\ PairStored(requests', args[p].requestee, args[p].requester)
                /\ Cardinality(DOMAIN requests') = Cardinality(DOMAIN requests) + 1]_vars

\* a create has just been answered with the duplicate error
C6_Witness ==
    \E p \in procs :
        /\ Idle(p)
        /\ response[p] = DuplicateError
        /\ requests # << >>

\* C7: a stored request for (L2,L1) never makes create(L1,L2) fail: the duplicate
\* check lets it pass, the validation does not look at it, and after the commit
\* both requests are stored.
C7_ReversePairIndependent ==
    [][\A p \in procs :
          /\ (Idle(p) /\ pc'[p] # "create_txn")
             => \A r \in DOMAIN requests :
                   LET a == requests[r].requester_listing_id
                       b == requests[r].requestee_listing_id
                   IN ~(/\ ~PairStored(requests, a, b)
                        /\ \E u \in Callers : CreateExists(p, u, a, b))
          /\ (/\ pc[p] \in CreatePcs /\ pc'[p] # pc[p]
              /\ PairStored(requests, args[p].requester, args[p].requestee)
              /\ ValidPair(args[p].requestee, args[p].requester))
             => \/ pc'[p] \in CreatePcs
                \/ /\ response'[p].code = 201
                   /\ PairStored(requests', args[p].requestee, args[p].requester)
                   /\ PairStored(requests', args[p].requester, args[p].requestee)]_vars

\* a request and its reverse are both stored
C7_Witness ==
    \E r1 \in DOMAIN requests, r2 \in DOMAIN requests :
        /\ r1 # r2
        /\ requests[r1].requestee_listing_id = requests[r2].requester_listing_id
        /\ requests[r1].requester_listing_id = requests[r2].requestee_listing_id

NotFoundError == Error(400, CreateFailed("One or both listings not found"))
SameOwnerError ==
    Error(400, CreateFailed("Cannot create exchange request between listings owned by the same user"))

\* C8: no stored request has the same listing as requestee and as requester
\* (create(L1,L1) cannot store one: it fails on the owner or the existence check).
C8_NoSelfExchange ==
    \A r \in DOMAIN requests :
        requests[r].requestee_listing_id # requests[r].requester_listing_id

\* C9: the store's create(requestee, requester) fails and inserts no request when
\* a listing is missing (listings not found) or when both listings have the same
\* owner (same user).
C9_InvalidPairRejected ==
    [][\A p \in procs :
          (/\ pc[p] = "create_txn" /\ pc'[p] # pc[p]
           /\ ~ValidPair(args[p].requestee, args[p].requester))
          => /\ pc'[p] = "idle"
             /\ response'[p] =
                   IF {args[p].requestee, args[p].requester} \subseteq DOMAIN listings
                   THEN SameOwnerError ELSE NotFoundError
             /\ requests' = requests
             /\ nextRequest' = nextRequest]_vars

\* a create has just been refused because both listings have the same owner
C9_Witness ==
    \E p \in procs :
        /\ Idle(p)
        /\ response[p] = SameOwnerError

\* C10: the two listings of every stored request have different owners.
C10_DistinctOwners ==
    \A r \in DOMAIN requests :
        LET a == requests[r].requestee_listing_id
            b == requests[r].requester_listing_id
        IN (a \in DOMAIN listings /\ b \in DOMAIN listings)
           => listings[a].user_id # listings[b].user_id

\* the step in which instance p ends its accept handler with the 200 response
AcceptAnswers(p) ==
    pc[p] = "accept_del2" /\ pc'[p] = "idle" /\ response'[p].code = 200

\* C11: accept by a caller who does not own the request's requestee listing is
\* refused with 403 and changes nothing: no request changes its status, no
\* listing is removed.
C11_UnauthorizedAcceptRefused ==
    [][\A p \in procs :
          /\ (Idle(p) /\ pc'[p] = "accept_auth") => store' = store
          /\ (/\ pc[p] = "accept_auth" /\ pc'[p] # pc[p]
              /\ args[p].row.requestee_listing_id \in DOMAIN listings
              /\ listings[args[p].row.requestee_listing_id].user_id # args[p].caller)
             => /\ pc'[p] = "idle"
                /\ response'[p] = AcceptForbidden
                /\ store' = store]_vars

\* an accept has just been refused with 403 while a pending request and both of
\* its listings are stored
C11_Witness ==
    \E p \in procs :
        /\ Idle(p)
        /\ response[p] = AcceptForbidden
        /\ \E r \in DOMAIN requests :
              /\ requests[r].status = "pending"
              /\ requests[r].requestee_listing_id \in DOMAIN listings
              /\ requests[r].requester_listing_id \in DOMAIN listings

\* C12: when the accept handler answers 200 for request R, neither R's requestee
\* listing nor R's requester listing is in book_listings.
C12_AcceptedListingsRemoved ==
    [][\A p \in procs : AcceptAnswers(p) =>
          /\ response'[p].body.requestee_listing_id \notin DOMAIN listings'
          /\ response'[p].body.requester_listing_id \notin DOMAIN listings']_vars

\* an accept has answered 200 with the accepted row and another listing is left
C12_Witness ==
    \E p \in procs :
        /\ Idle(p)
        /\ response[p].code = 200
        /\ response[p].body.status = "accepted"
        /\ response[p].body.requestee_listing_id \notin DOMAIN listings
        /\ response[p].body.requester_listing_id \notin DOMAIN listings
        /\ listings # << >>

\* C13: a stored request leaves the store only in a step of DELETE /exchanges/:id
\* for that request: no accept and no deletion of a listing removes a request.
C13_OnlyExplicitDeletion ==
    [][\A r \in DOMAIN requests :
          r \notin DOMAIN requests' =>
              \E p \in procs, u \in Callers : DeleteExchangeRequest(p, u, r)]_vars

\* C14: when the accept handler answers 200 for request R, R is still stored with
\* status accepted, both of its listings are gone, and every other stored request
\* for R's requestee listing is rejected.
C14_ScenarioAfterAccept ==
    [][\A p \in procs : AcceptAnswers(p) =>
          LET row == response'[p].body
          IN /\ row.request_id \in DOMAIN requests'
             /\ requests'[row.request_id].status = "accepted"
             /\ row.requestee_listing_id \notin DOMAIN listings'
             /\ row.requester_listing_id \notin DOMAIN listings'
             /\ \A r \in Siblings(requests', row.requestee_listing_id, row.request_id) :
                   requests'[r].status = "rejected"]_vars

\* C15: when a listing deletion of the accept handler fails after the commit (the
\* database is locked by another instance), the committed acceptance stays as
\* it is and the handler still answers 200.
C15_CleanupFailureStillSucceeds ==
    [][\A p \in procs :
          (pc[p] \in {"accept_del1", "accept_del2"} /\ ~CanWrite(p) /\ pc'[p] = "idle")
          => /\ requests' = requests
             /\ response'[p].code = 200]_vars

\* user u owns the requestee listing or the requester listing of request rid
OwnsEither(u, rid) ==
    \E l \in {requests[rid].requestee_listing_id, requests[rid].requester_listing_id} :
        l \in DOMAIN listings /\ listings[l].user_id = u

\* C16: a status update or a deletion of a request takes effect only for a caller
\* who owns one of the request's listings, and a request is created only for a
\* caller who owns the requester listing.
C16_OwnerGate ==
    [][\A p \in procs :
          /\ \A u \in Callers, rid \in DOMAIN requests, s \in Statuses :
                (UpdateExchangeRequestStatus(p, u, rid, s) /\ requests' # requests)
                => OwnsEither(u, rid)
          /\ \A u \in Callers, rid \in DOMAIN requests :
                DeleteExchangeRequest(p, u, rid) => OwnsEither(u, rid)
          /\ (pc[p] = "create_commit" /\ pc'[p] = "idle" /\ response'[p].code = 201)
             => listings[args[p].requester].user_id = args[p].caller]_vars

\* C17: no stored request has status completed or cancelled.
C17_NoCompletedOrCancelled ==
    \A r \in DOMAIN requests : requests[r].status \notin {"completed", "cancelled"}

\* C17 as amended: a request takes the status completed or cancelled only in a
\* step of PUT /exchanges/:id/status that names this request and this status;
\* create and accept never store these statuses.
C17_OnlyStatusUpdateWrites ==
    [][\A r \in DOMAIN requests' :
          (/\ requests'[r].status \in {"completed", "cancelled"}
           /\ (r \notin DOMAIN requests \/ requests[r].status # requests'[r].status))
          => \E p \in procs, u \in Callers :
                UpdateExchangeRequestStatus(p, u, r, requests'[r].status)]_vars

\* a status update has just stored completed or cancelled while an accepted
\* request is stored too
C17_Witness ==
    \E p \in procs :
        /\ Idle(p)
        /\ response[p].code = 200
        /\ response[p].body.status \in {"completed", "cancelled"}
        /\ response[p].body.request_id \in DOMAIN requests
        /\ requests[response[p].body.request_id] = response[p].body
        /\ \E r \in DOMAIN requests : requests[r].status = "accepted"

\* C18: a successful create adds exactly one request: its status is pending, its
\* request_id is the id of no request stored before, and the others are unchanged.
C18_CreatedPendingFreshId ==
    [][\A p \in procs :
          (pc[p] = "create_commit" /\ pc'[p] = "idle" /\ response'[p].code = 201)
          => LET row == response'[p].body
             IN /\ row.request_id \notin DOMAIN requests
                /\ \A r \in DOMAIN requests : requests[r].request_id # row.request_id
                /\ DOMAIN requests' = DOMAIN requests \cup {row.request_id}
                /\ requests'[row.request_id] = row
                /\ row.status = "pending"
                /\ \A r \in DOMAIN requests : requests'[r] = requests[r]]_vars

\* a create has just answered 201 and an older request is stored beside the new one
C18_Witness ==
    \E p \in procs :
        /\ Idle(p)
        /\ response[p].code = 201
        /\ response[p].body.request_id \in DOMAIN requests
        /\ \E r \in DOMAIN requests : r # response[p].body.request_id

\* C19: GET /exchanges/:id for a stored request answers 200 with the request when
\* the caller owns the requestee or the requester listing and 403 for every other
\* caller, and changes neither listings nor requests.
C19_ViewOwnersOnly ==
    [][\A p \in procs :
          (Idle(p) /\ pc'[p] = "idle")
          => \A u \in Callers, rid \in DOMAIN requests :
                ViewExchange(p, u, rid) =>
                    /\ store' = store
                    /\ response'[p] = IF OwnsEither(u, rid) THEN Answer(200, requests[rid])
                                                            ELSE NotAuthorizedToView]_vars

\* a view has just been refused with 403 while the request's two listings are stored
C19_Witness ==
    \E p \in procs :
        /\ Idle(p)
        /\ response[p] = NotAuthorizedToView
        /\ \E r \in DOMAIN requests :
              /\ requests[r].requestee_listing_id \in DOMAIN listings
              /\ requests[r].requester_listing_id \in DOMAIN listings

\* C20: a create that fails answers with exactly one of three different errors,
\* and the error tells the cause: the duplicate error for a stored ordered pair,
\* the not-found error for a missing listing, the same-owner error for two
\* listings of one user.
C20_DistinctCreateErrors ==
    [][\A p \in procs :
          /\ Cardinality({DuplicateError, NotFoundError, SameOwnerError}) = 3
          /\ (Idle(p) /\ pc'[p] = "idle" /\ response'[p].code = 400)
             => /\ response'[p] = DuplicateError
                /\ \A u \in Callers, a \in ListingIds, b \in ListingIds :
                      CreateExists(p, u, a, b) => PairStored(requests, a, b)
          /\ (pc[p] = "create_txn" /\ pc'[p] = "idle")
             => LET a == args[p].requestee
                    b == args[p].requester
                IN \/ /\ response'[p] = NotFoundError
                      /\ (a \notin DOMAIN listings \/ b \notin DOMAIN listings)
                   \/ /\ response'[p] = SameOwnerError
                      /\ a \in DOMAIN listings /\ b \in DOMAIN listings
                      /\ listings[a].user_id = listings[b].user_id]_vars

\* a create has just been refused because a listing does not exist, while a
\* request is stored
C20_Witness ==
    \E p \in procs :
        /\ Idle(p)
        /\ response[p] = NotFoundError
        /\ requests # << >>

NotFound404 == Error(404, "ExchangeRequestNotFoundError")

\* C21: accept and the status update on an id that is not stored answer the
\* not-found error and leave every stored request as it is.
C21_MissingIdNotFound ==
    [][\A p \in procs :
          (Idle(p) /\ pc'[p] = "idle")
          => \A u \in Callers, rid \in RequestIds \ DOMAIN requests :
                /\ AcceptLoad(p, rid, u)
                   => requests' = requests /\ response'[p] = NotFound404
                /\ \A s \in Statuses :
                      UpdateExchangeRequestStatus(p, u, rid, s)
                      => requests' = requests /\ response'[p] = NotFound404]_vars

DeleteNotFound == Error(404, "Exchange request not found")

\* C22: deleting a request or a listing removes it and reports success exactly
\* when it was stored; deleting an id that is not stored (as a second delete of
\* the same id does) reports false without a server error and changes nothing.
C22_DeleteIdempotent ==
    [][\A p \in procs :
          (Idle(p) /\ pc'[p] = "idle" /\ response'[p].code # 200)
          => /\ \A u \in Callers, rid \in RequestIds :
                   DeleteExchangeRequest(p, u, rid)
                   => /\ rid \notin DOMAIN requests'
                      /\ response'[p] = IF rid \in DOMAIN requests THEN NoContent
                                                                ELSE DeleteNotFound
                      /\ rid \notin DOMAIN requests => store' = store
             /\ \A l \in ListingIds :
                   DeleteBookListing(p, l)
                   => /\ l \notin DOMAIN listings'
                      /\ (response'[p] = NoContent) = (l \in DOMAIN listings)
                      /\ response'[p].code # 500
                      /\ l \notin DOMAIN listings => store' = store]_vars

\* a delete of a request has just answered not found after every request that
\* was created has been removed
C22_Witness ==
    \E p \in procs :
        /\ Idle(p)
        /\ response[p] = DeleteNotFound
        /\ nextRequest > 1
        /\ requests = << >>

AcceptDeletePcs == {"accept_del1", "accept_del2"}

\* C23: the accept handler deletes listings only after the store's accept has
\* returned the accepted row: a step of the handler before that point, and a
\* step that ends it with an error there, removes no listing.
C23_DeleteOnlyAfterAccept ==
    [][\A p \in procs :
          pc'[p] # pc[p] =>
              \/ listings' = listings
              \/ /\ pc[p] \in AcceptDeletePcs
                 /\ args[p].row.status = "accepted"
                 /\ DOMAIN listings \ DOMAIN listings'
                       \subseteq {args[p].row.requestee_listing_id,
                                  args[p].row.requester_listing_id}]_vars

\* an accept has failed inside its transaction: the handler answered 500, every
\* request is still pending and every listing is still stored
C23_Witness ==
    \E p \in procs :
        /\ Idle(p)
        /\ response[p] = Error(500, "Internal server error")
        /\ requests # << >>
        /\ \A r \in DOMAIN requests : requests[r].status = "pending"
        /\ DOMAIN listings = 1..(nextListing - 1)

\* C24: accept moves a request to accepted only from pending: a request whose
\* status an accept changes to accepted was stored as pending before the commit,
\* in particular it was not rejected.
C24_AcceptOnlyFromPending ==
    [][\A p \in procs :
          (AcceptCommits(p) /\ requests[args[p].rid].status # requests'[args[p].rid].status)
          => requests[args[p].rid].status = "pending"]_vars

\* C25: at most one stored request per requestee listing has status accepted.
C25_OneAcceptedPerListing ==
    \A r1 \in DOMAIN requests, r2 \in DOMAIN requests :
        (/\ requests[r1].status = "accepted" /\ requests[r2].status = "accepted"
         /\ requests[r1].requestee_listing_id = requests[r2].requestee_listing_id)
        => r1 = r2

\* the two listings a request row names
ListingsOf(row) == {row.requestee_listing_id, row.requester_listing_id}

\* C26: each listing takes part in at most one accepted exchange.  An accept
\* commits only a request whose two listings are both still stored and are not
\* the listings of an accept that another handler has committed and not yet
\* finished; a committed accept always ends with the 200 answer, and when it
\* answers both listings are gone and no stored request names either of them in
\* either role, so no later accept can name them again.
C26_ListingExchangedOnce ==
    [][\A p \in procs :
          /\ AcceptCommits(p) =>
                /\ ListingsOf(requests'[args[p].rid]) \subseteq DOMAIN listings
                /\ \A q \in procs \ {p} :
                      pc[q] \in AcceptDeletePcs =>
                          ListingsOf(requests'[args[p].rid]) \cap ListingsOf(args[q].row) = {}
          /\ (pc[p] \in AcceptDeletePcs /\ pc'[p] = "idle") => AcceptAnswers(p)
          /\ AcceptAnswers(p) =>
                /\ ListingsOf(args[p].row) \cap DOMAIN listings' = {}
                /\ \A r \in DOMAIN requests' :
                      ListingsOf(requests'[r]) \cap ListingsOf(args[p].row) = {}]_vars

\* an accept has committed and removed the requestee listing, and a pending
\* request on another requestee listing offers the same requester listing
C26_Witness ==
    \E p \in procs :
        /\ pc[p] = "accept_del2"
        /\ args[p].row.status = "accepted"
        /\ args[p].row.requestee_listing_id \notin DOMAIN listings
        /\ \E r \in DOMAIN requests :
              /\ requests[r].requester_listing_id = args[p].row.requester_listing_id
              /\ requests[r].requestee_listing_id # args[p].row.requestee_listing_id
              /\ requests[r].status = "pending"

\* C27: with several instances interleaving, the accept flow removes a listing
\* only for a request whose final committed status is accepted.  Two instances
\* have each answered 200 to an accept, for two different requests (different
\* requester listings) on the same requestee listing: the later commit rejected
\* the other request, so the requester listing of one of the two is still stored.
C27_RejectedKeepsRequesterListing ==
    \A p \in procs, q \in procs :
        (/\ p # q
         /\ Idle(p) /\ Idle(q)
         /\ response[p].code = 200 /\ response[q].code = 200
         /\ response[p].body.request_id # response[q].body.request_id
         /\ response[p].body.requester_listing_id # response[q].body.requester_listing_id
         /\ response[p].body.requestee_listing_id = response[q].body.requestee_listing_id)
        => \/ response[p].body.requester_listing_id \in DOMAIN listings
           \/ response[q].body.requester_listing_id \in DOMAIN listings

\* C28: referential integrity: both listings of every stored pending request
\* are stored listings.
C28_PendingListingsExist ==
    \A r \in DOMAIN requests :
        requests[r].status = "pending" => ListingsOf(requests[r]) \subseteq DOMAIN listings

\* an accept has deleted its requestee listing and with it the accepted request,
\* and a pending request is still stored
C28_Witness ==
    \E p \in procs :
        /\ pc[p] = "accept_del2"
        /\ args[p].rid \notin DOMAIN requests
        /\ args[p].row.requestee_listing_id \notin DOMAIN listings
        /\ \E r \in DOMAIN requests : requests[r].status = "pending"

\* C29: a status update of a stored request changes the status field of that
\* request and nothing else: every other request, also one on the same
\* requestee listing when the new status is accepted, and every listing stay
\* as they are.  (The update of a stored request answers 200 with the row.)
C29_StatusUpdateFrame ==
    [][\A p \in procs :
          (Idle(p) /\ pc'[p] = "idle" /\ response'[p].code = 200) =>
              LET rid == response'[p].body.request_id
                  s == response'[p].body.status
              IN \A u \in Callers :
                    (rid \in DOMAIN requests /\ UpdateExchangeRequestStatus(p, u, rid, s))
                    => /\ requests' = [requests EXCEPT ![rid].status = s]
                       /\ listings' = listings
                       /\ nextListing' = nextListing /\ nextRequest' = nextRequest]_vars

\* a status update has answered with the accepted row while another request
\* for the same requestee listing is still pending
C29_Witness ==
    \E p \in procs :
        /\ Idle(p)
        /\ response[p].code = 200
        /\ response[p].body.status = "accepted"
        /\ response[p].body.request_id \in DOMAIN requests
        /\ requests[response[p].body.request_id] = response[p].body
        /\ \E r \in Siblings(requests, response[p].body.requestee_listing_id,
                              response[p].body.request_id) :
              requests[r].status = "pending"
        /\ ListingsOf(response[p].body) \subseteq DOMAIN listings

\* a registration that has created its profile and not yet finished
InFlight(name) ==
    \E c \in Calls : calls[c].pc = "hashing" /\ calls[c].username = name

HasProfile(name) ==
    \E k \in DOMAIN users : users[k].username = name

\* C30: registerUser is atomic across users and user_auth under interleaved
\* registrations: a username that no unfinished registration has created has a
\* profile row exactly if it has credentials, and a registration that fails
\* after it created its profile row leaves that row deleted.
C30_RegisterAtomic ==
    /\ [](\A name \in Usernames :
             ~InFlight(name) => (HasProfile(name) <=> name \in user_auth))
    /\ [][\A c \in Calls :
             (calls[c].pc = "hashing" /\ calls'[c].pc = "idle" /\ reply'[c].code # 201)
             => calls[c].createdUser.user_id \notin DOMAIN users']_vars

\* a registration without password has failed and its profile row is gone,
\* while a registration that ran between its two steps has succeeded
C30_Witness ==
    \E c \in Calls, d \in Calls :
        /\ calls[c].pc = "idle" /\ calls[d].pc = "idle"
        /\ reply[c] = Error(400, "Failed to register user: Illegal arguments: undefined, string")
        /\ reply[d].code = 201
        /\ reply[d].body.user.user_id \in DOMAIN users
        /\ \E k \in 1..(nextUser - 1) : k < reply[d].body.user.user_id /\ k \notin DOMAIN users
        /\ user_auth = {reply[d].body.user.username}

====
